---- MODULE Spec2Model ----
(***************************************************************************)
(* The long-polling conversation loop of the ITMO curriculum Telegram bot  *)
(* (src/telegram_bot.py, class ITMOCurriculumBot): the update cursor, the  *)
(* dispatch of commands and questions, the thinking indicator, the call of *)
(* the completion service, the formatter and the chunked send.             *)
(*                                                                         *)
(* A text is a Python str: a sequence of Unicode code points.  Every       *)
(* literal of the source is written out as the tuple of its code points.   *)
(* The transport (requests.get / requests.post against the Telegram API)   *)
(* and the completion SDK are the environment: each call is one step whose *)
(* outcome is chosen nondeterministically among "ok" (the response parses  *)
(* and carries ok = true), "notok" (it parses and carries no true ok) and  *)
(* "exc" (the call or the parse of its response raises an Exception).      *)
(***************************************************************************)
EXTENDS Integers, Sequences, FiniteSets, TLC

\* ------------------------------------------------------------------------
\* Bounds of the model.
\* ------------------------------------------------------------------------

\* The longest batch one poll returns.
MaxBatch == 2

\* The largest update_id the transport hands out.
MaxUpdateId == 2

\* The message_id values the transport assigns to a created message: 1..MaxMsgId.
MaxMsgId == 1

\* The failing calls (transport or completion) the environment injects while
\* the loop handles one update.
MaxFaults == 1

\* No handle_question makes more calls than this: with as many failures to
\* inject, the environment can fail every call of one question.
CallsPerQuestion == 10

\* The longest text handed to send_telegram_message alone is
\* MaxParts * max_message_length + 1 code points long.
MaxParts == 3

\* ------------------------------------------------------------------------
\* Program constants and literals.
\* ------------------------------------------------------------------------

\* TELEGRAM_CONFIG['max_message_length']
max_message_length == 4000

\* Python's None for a message_id.  The transport's message_id values are
\* positive, so 0 stands for None and is falsy as None is.
None == 0

\* TELEGRAM_CONFIG['timeout'], in seconds.
telegram_timeout == 30

\* The number of thinking_messages.
NumThinking == 4

\* Code points the program's own code names.
Newline == 10

Space == 32

Asterisk == 42

Slash == 47

Digit0 == 48

Backquote == 96

\* SYSTEM_PROMPTS['welcome'] (bot_config.py:82-95), 391 code points
welcome ==
    <<127891, 32, 1044, 1086, 1073, 1088, 1086, 32, 1087, 1086, 1078, 1072, 1083, 1086, 1074,
      1072, 1090, 1100, 32, 1074, 32, 1073, 1086, 1090, 32, 1087, 1086, 32, 1091, 1095, 1077,
      1073, 1085, 1099, 1084, 32, 1087, 1083, 1072, 1085, 1072, 1084, 32, 1048, 1058, 1052,
      1054, 33, 10, 10, 1071, 32, 1087, 1086, 1084, 1086, 1075, 1091, 32, 1074, 1072, 1084,
      32, 1085, 1072, 1081, 1090, 1080, 32, 1080, 1085, 1092, 1086, 1088, 1084, 1072, 1094,
      1080, 1102, 32, 1086, 32, 1084, 1072, 1075, 1080, 1089, 1090, 1077, 1088, 1089, 1082,
      1080, 1093, 32, 1087, 1088, 1086, 1075, 1088, 1072, 1084, 1084, 1072, 1093, 58, 10,
      8226, 32, 60, 98, 62, 1048, 1089, 1082, 1091, 1089, 1089, 1090, 1074, 1077, 1085, 1085,
      1099, 1081, 32, 1080, 1085, 1090, 1077, 1083, 1083, 1077, 1082, 1090, 60, 47, 98, 62,
      10, 8226, 32, 60, 98, 62, 1059, 1087, 1088, 1072, 1074, 1083, 1077, 1085, 1080, 1077,
      32, 1048, 1048, 45, 1087, 1088, 1086, 1076, 1091, 1082, 1090, 1072, 1084, 1080, 60, 47,
      98, 62, 10, 10, 1042, 1099, 32, 1084, 1086, 1078, 1077, 1090, 1077, 32, 1089, 1087,
      1088, 1086, 1089, 1080, 1090, 1100, 58, 10, 8226, 32, 1050, 1072, 1082, 1080, 1077, 32,
      1076, 1080, 1089, 1094, 1080, 1087, 1083, 1080, 1085, 1099, 32, 1077, 1089, 1090, 1100,
      32, 1074, 32, 1087, 1088, 1086, 1075, 1088, 1072, 1084, 1084, 1077, 63, 10, 8226, 32,
      1057, 1082, 1086, 1083, 1100, 1082, 1086, 32, 1079, 1072, 1095, 1077, 1090, 1085, 1099,
      1093, 32, 1077, 1076, 1080, 1085, 1080, 1094, 32, 1091, 32, 1076, 1080, 1089, 1094,
      1080, 1087, 1083, 1080, 1085, 1099, 63, 10, 8226, 32, 1042, 32, 1082, 1072, 1082, 1086,
      1084, 32, 1089, 1077, 1084, 1077, 1089, 1090, 1088, 1077, 32, 1080, 1079, 1091, 1095,
      1072, 1077, 1090, 1089, 1103, 32, 1087, 1088, 1077, 1076, 1084, 1077, 1090, 63, 10,
      8226, 32, 1050, 1072, 1082, 1080, 1077, 32, 1087, 1088, 1072, 1082, 1090, 1080, 1082,
      1080, 32, 1087, 1088, 1077, 1076, 1091, 1089, 1084, 1086, 1090, 1088, 1077, 1085, 1099,
      63, 10, 8226, 32, 1048, 32, 1084, 1085, 1086, 1075, 1086, 1077, 32, 1076, 1088, 1091,
      1075, 1086, 1077, 33, 10, 10, 1055, 1088, 1086, 1089, 1090, 1086, 32, 1079, 1072, 1076,
      1072, 1081, 1090, 1077, 32, 1089, 1074, 1086, 1081, 32, 1074, 1086, 1087, 1088, 1086,
      1089, 33, 32, 128172>>

\* SYSTEM_PROMPTS['help'] (bot_config.py:97-113), 453 code points
help ==
    <<128218, 32, 60, 98, 62, 1055, 1086, 1084, 1086, 1097, 1100, 32, 1087, 1086, 32, 1073,
      1086, 1090, 1091, 60, 47, 98, 62, 10, 10, 60, 98, 62, 1044, 1086, 1089, 1090, 1091,
      1087, 1085, 1099, 1077, 32, 1087, 1088, 1086, 1075, 1088, 1072, 1084, 1084, 1099, 58,
      60, 47, 98, 62, 10, 8226, 32, 1048, 1089, 1082, 1091, 1089, 1089, 1090, 1074, 1077,
      1085, 1085, 1099, 1081, 32, 1080, 1085, 1090, 1077, 1083, 1083, 1077, 1082, 1090, 10,
      8226, 32, 1059, 1087, 1088, 1072, 1074, 1083, 1077, 1085, 1080, 1077, 32, 1048, 1048,
      45, 1087, 1088, 1086, 1076, 1091, 1082, 1090, 1072, 1084, 1080, 47, 65, 73, 32, 80, 114,
      111, 100, 117, 99, 116, 10, 10, 60, 98, 62, 1055, 1088, 1080, 1084, 1077, 1088, 1099,
      32, 1074, 1086, 1087, 1088, 1086, 1089, 1086, 1074, 58, 60, 47, 98, 62, 10, 8226, 32,
      34, 1050, 1072, 1082, 1080, 1077, 32, 1076, 1080, 1089, 1094, 1080, 1087, 1083, 1080,
      1085, 1099, 32, 1087, 1086, 32, 1084, 1072, 1096, 1080, 1085, 1085, 1086, 1084, 1091,
      32, 1086, 1073, 1091, 1095, 1077, 1085, 1080, 1102, 32, 1077, 1089, 1090, 1100, 32,
      1074, 32, 1087, 1088, 1086, 1075, 1088, 1072, 1084, 1084, 1077, 32, 1048, 1048, 63, 34,
      10, 8226, 32, 34, 1057, 1082, 1086, 1083, 1100, 1082, 1086, 32, 1079, 1072, 1095, 1077,
      1090, 1085, 1099, 1093, 32, 1077, 1076, 1080, 1085, 1080, 1094, 32, 1091, 32, 1076,
      1080, 1089, 1094, 1080, 1087, 1083, 1080, 1085, 1099, 32, 39, 1043, 1083, 1091, 1073,
      1086, 1082, 1086, 1077, 32, 1086, 1073, 1091, 1095, 1077, 1085, 1080, 1077, 39, 63, 34,
      10, 8226, 32, 34, 1050, 1072, 1082, 1080, 1077, 32, 1087, 1088, 1072, 1082, 1090, 1080,
      1082, 1080, 32, 1074, 32, 51, 32, 1089, 1077, 1084, 1077, 1089, 1090, 1088, 1077, 63,
      34, 10, 8226, 32, 34, 1056, 1072, 1089, 1089, 1082, 1072, 1078, 1080, 32, 1087, 1088,
      1086, 32, 1087, 1088, 1086, 1075, 1088, 1072, 1084, 1084, 1091, 32, 1059, 1087, 1088,
      1072, 1074, 1083, 1077, 1085, 1080, 1077, 32, 1048, 1048, 45, 1087, 1088, 1086, 1076,
      1091, 1082, 1090, 1072, 1084, 1080, 34, 10, 10, 60, 98, 62, 1050, 1086, 1084, 1072,
      1085, 1076, 1099, 58, 60, 47, 98, 62, 10, 47, 115, 116, 97, 114, 116, 32, 45, 32, 1085,
      1072, 1095, 1072, 1090, 1100, 32, 1088, 1072, 1073, 1086, 1090, 1091, 10, 47, 104, 101,
      108, 112, 32, 45, 32, 1101, 1090, 1072, 32, 1089, 1087, 1088, 1072, 1074, 1082, 1072,
      10, 10, 1047, 1072, 1076, 1072, 1074, 1072, 1081, 1090, 1077, 32, 1074, 1086, 1087,
      1088, 1086, 1089, 1099, 32, 1085, 1072, 32, 1088, 1091, 1089, 1089, 1082, 1086, 1084,
      32, 1103, 1079, 1099, 1082, 1077, 33, 32, 127479, 127482>>

\* SYSTEM_PROMPTS['error'] (bot_config.py:115), 74 code points
error ==
    <<1048, 1079, 1074, 1080, 1085, 1080, 1090, 1077, 44, 32, 1087, 1088, 1086, 1080, 1079,
      1086, 1096, 1083, 1072, 32, 1086, 1096, 1080, 1073, 1082, 1072, 32, 1087, 1088, 1080,
      32, 1086, 1073, 1088, 1072, 1073, 1086, 1090, 1082, 1077, 32, 1074, 1072, 1096, 1077,
      1075, 1086, 32, 1074, 1086, 1087, 1088, 1086, 1089, 1072, 46, 32, 1055, 1086, 1087,
      1088, 1086, 1073, 1091, 1081, 1090, 1077, 32, 1087, 1086, 1079, 1078, 1077, 46>>

\* SYSTEM_PROMPTS['no_response'] (bot_config.py:116), 64 code points
no_response ==
    <<1048, 1079, 1074, 1080, 1085, 1080, 1090, 1077, 44, 32, 1085, 1077, 32, 1091, 1076,
      1072, 1083, 1086, 1089, 1100, 32, 1087, 1086, 1083, 1091, 1095, 1080, 1090, 1100, 32,
      1086, 1090, 1074, 1077, 1090, 32, 1086, 1090, 32, 1084, 1086, 1076, 1077, 1083, 1080,
      46, 32, 1055, 1086, 1087, 1088, 1086, 1073, 1091, 1081, 1090, 1077, 32, 1087, 1086,
      1079, 1078, 1077, 46>>

\* error_message of handle_question (telegram_bot.py:348): the same text as SYSTEM_PROMPTS['error']
error_message ==
    <<1048, 1079, 1074, 1080, 1085, 1080, 1090, 1077, 44, 32, 1087, 1088, 1086, 1080, 1079,
      1086, 1096, 1083, 1072, 32, 1086, 1096, 1080, 1073, 1082, 1072, 32, 1087, 1088, 1080,
      32, 1086, 1073, 1088, 1072, 1073, 1086, 1090, 1082, 1077, 32, 1074, 1072, 1096, 1077,
      1075, 1086, 32, 1074, 1086, 1087, 1088, 1086, 1089, 1072, 46, 32, 1055, 1086, 1087,
      1088, 1086, 1073, 1091, 1081, 1090, 1077, 32, 1087, 1086, 1079, 1078, 1077, 46>>

\* thinking_messages[0] (telegram_bot.py:261)
thinking_0 ==
    <<129300, 32, 1040, 1085, 1072, 1083, 1080, 1079, 1080, 1088, 1091, 1102, 32, 1091, 1095,
      1077, 1073, 1085, 1099, 1077, 32, 1087, 1083, 1072, 1085, 1099, 46, 46, 46>>

\* thinking_messages[1] (telegram_bot.py:262)
thinking_1 ==
    <<128218, 32, 1048, 1097, 1091, 32, 1080, 1085, 1092, 1086, 1088, 1084, 1072, 1094, 1080,
      1102, 32, 1074, 32, 1073, 1072, 1079, 1077, 32, 1076, 1072, 1085, 1085, 1099, 1093, 46,
      46, 46>>

\* thinking_messages[2] (telegram_bot.py:263)
thinking_2 ==
    <<128269, 32, 1055, 1088, 1086, 1074, 1077, 1088, 1103, 1102, 32, 1076, 1077, 1090, 1072,
      1083, 1080, 32, 1087, 1088, 1086, 1075, 1088, 1072, 1084, 1084, 46, 46, 46>>

\* thinking_messages[3] (telegram_bot.py:264)
thinking_3 ==
    <<128173, 32, 1060, 1086, 1088, 1084, 1091, 1083, 1080, 1088, 1091, 1102, 32, 1086, 1090,
      1074, 1077, 1090, 46, 46, 46>>

\* "start_command_processed" (telegram_bot.py:245)
start_command_processed ==
    <<115, 116, 97, 114, 116, 95, 99, 111, 109, 109, 97, 110, 100, 95, 112, 114, 111, 99, 101,
      115, 115, 101, 100>>

\* "help_command_processed" (telegram_bot.py:249)
help_command_processed ==
    <<104, 101, 108, 112, 95, 99, 111, 109, 109, 97, 110, 100, 95, 112, 114, 111, 99, 101,
      115, 115, 101, 100>>

\* "/start" (telegram_bot.py:243)
cmd_start ==
    <<47, 115, 116, 97, 114, 116>>

\* "/help" (telegram_bot.py:247)
cmd_help ==
    <<47, 104, 101, 108, 112>>

\* "(продолжение " : the head of the continuation marker (telegram_bot.py:170)
marker_head ==
    <<40, 1087, 1088, 1086, 1076, 1086, 1083, 1078, 1077, 1085, 1080, 1077, 32>>

\* ")\n\n" : the tail of the continuation marker (telegram_bot.py:170)
marker_tail ==
    <<41, 10, 10>>

\* "(continuation " : the head of the marker as the specification words it
english_marker_head ==
    <<40, 99, 111, 110, 116, 105, 110, 117, 97, 116, 105, 111, 110, 32>>

\* "<b>", "</b>", "<i>", "</i>", "<code>", "</code>": the replacement
\* templates of fix_telegram_formatting (telegram_bot.py:147-156).
tag_b_open == <<60, 98, 62>>

tag_b_close == <<60, 47, 98, 62>>

tag_i_open == <<60, 105, 62>>

tag_i_close == <<60, 47, 105, 62>>

tag_code_open == <<60, 99, 111, 100, 101, 62>>

tag_code_close == <<60, 47, 99, 111, 100, 101, 62>>

\* ------------------------------------------------------------------------
\* Text helpers: what str.strip, str.startswith, str(int) and slicing do.
\* ------------------------------------------------------------------------

Min(S) == CHOOSE x \in S : \A y \in S : x <= y

\* The code points str.strip() removes: the ASCII white space, the ASCII
\* separators and the no-break spaces.
Whitespace == {9, 10, 11, 12, 13, 28, 29, 30, 31, 32, 133, 160}

\* text.strip()
Strip(t) ==
    LET keep == {k \in 1..Len(t) : t[k] \notin Whitespace}
    IN  IF keep = {} THEN <<>>
        ELSE SubSeq(t, Min(keep), CHOOSE k \in keep : \A j \in keep : j <= k)

\* text.startswith(prefix)
StartsWith(t, prefix) ==
    /\ Len(prefix) <= Len(t)
    /\ SubSeq(t, 1, Len(prefix)) = prefix

\* str(n) of an f-string: the decimal digits of n >= 0.
RECURSIVE Digits(_)
Digits(n) ==
    IF n < 10 THEN <<Digit0 + n>>
    ELSE Digits(n \div 10) \o <<Digit0 + (n % 10)>>

\* ------------------------------------------------------------------------
\* fix_telegram_formatting: four re.sub passes, in the order of the source.
\* ------------------------------------------------------------------------

\* pat occurs in t at position p (1-based).
HasAt(t, p, pat) ==
    /\ p >= 1
    /\ p + Len(pat) - 1 <= Len(t)
    /\ \A k \in 1..Len(pat) : t[p + k - 1] = pat[k]

\* The four patterns.
Rules == <<"bold", "italic", "block", "code">>

\* The position where the closing delimiter of a match of `rule` that starts
\* at p begins, 0 when the pattern does not match at p.  A lazy group ends at
\* the first place where the rest of the pattern matches.
\*   bold    \*\*(.*?)\*\*                  "." matches no newline
\*   italic  (?<!\*)\*([^*]+?)\*(?!\*)
\*   block   ```(.*?)```                    re.DOTALL
\*   code    `([^`]+?)`
CloseAt(rule, t, p) ==
    LET star2 == <<Asterisk, Asterisk>>
        tick3 == <<Backquote, Backquote, Backquote>>
    IN  CASE rule = "bold" ->
               IF ~HasAt(t, p, star2) THEN 0
               ELSE LET Q == {q \in (p + 2)..Len(t) : HasAt(t, q, star2)}
                    IN  IF Q = {} THEN 0
                        ELSE IF \E k \in (p + 2)..(Min(Q) - 1) : t[k] = Newline THEN 0
                        ELSE Min(Q)
          [] rule = "italic" ->
               IF ~(HasAt(t, p, <<Asterisk>>) /\ ~HasAt(t, p - 1, <<Asterisk>>)) THEN 0
               ELSE LET Q == {q \in (p + 1)..Len(t) : t[q] = Asterisk}
                    IN  IF Q = {} THEN 0
                        ELSE IF Min(Q) = p + 1 THEN 0
                        ELSE IF HasAt(t, Min(Q) + 1, <<Asterisk>>) THEN 0
                        ELSE Min(Q)
          [] rule = "block" ->
               IF ~HasAt(t, p, tick3) THEN 0
               ELSE LET Q == {q \in (p + 3)..Len(t) : HasAt(t, q, tick3)}
                    IN  IF Q = {} THEN 0 ELSE Min(Q)
          [] rule = "code" ->
               IF ~HasAt(t, p, <<Backquote>>) THEN 0
               ELSE LET Q == {q \in (p + 1)..Len(t) : t[q] = Backquote}
                    IN  IF Q = {} THEN 0
                        ELSE IF Min(Q) = p + 1 THEN 0
                        ELSE Min(Q)

\* The code point every match of a rule starts with.
DelimChar(rule) ==
    IF rule \in {"bold", "italic"} THEN Asterisk ELSE Backquote

\* The length of the delimiter of a rule.
DelimLen(rule) ==
    CASE rule = "bold" -> 2 [] rule = "italic" -> 1 [] rule = "block" -> 3 [] rule = "code" -> 1

OpenTag(rule) ==
    CASE rule = "bold" -> tag_b_open [] rule = "italic" -> tag_i_open [] OTHER -> tag_code_open

CloseTag(rule) ==
    CASE rule = "bold" -> tag_b_close [] rule = "italic" -> tag_i_close [] OTHER -> tag_code_close

\* re.sub(pattern, r'<tag>\g<0></tag>', text): the whole match, delimiters
\* included, between the tags.
RECURSIVE ReSubKeepsDelims(_, _, _)
ReSubKeepsDelims(rule, t, pos) ==
    LET starts == {p \in {s \in pos..Len(t) : t[s] = DelimChar(rule)} :
                     CloseAt(rule, t, p) # 0}
    IN  IF starts = {} THEN SubSeq(t, pos, Len(t))
        ELSE LET p == Min(starts)
                 q == CloseAt(rule, t, p)
                 d == DelimLen(rule)
             IN  SubSeq(t, pos, p - 1) \o OpenTag(rule) \o SubSeq(t, p, q + d - 1)
                   \o CloseTag(rule) \o ReSubKeepsDelims(rule, t, q + d)

\* re.sub(pattern, r'<tag>\1</tag>', text) from position pos on: the leftmost
\* match is replaced and the scan goes on behind it; look-behind and
\* look-ahead read the original text.
RECURSIVE ReSub(_, _, _)
ReSub(rule, t, pos) ==
    LET starts == {p \in {s \in pos..Len(t) : t[s] = DelimChar(rule)} :
                     CloseAt(rule, t, p) # 0}
    IN  IF starts = {} THEN SubSeq(t, pos, Len(t))
        ELSE LET p == Min(starts)
                 q == CloseAt(rule, t, p)
                 d == DelimLen(rule)
             IN  SubSeq(t, pos, p - 1) \o OpenTag(rule) \o SubSeq(t, p + d, q - 1)
                   \o CloseTag(rule) \o ReSub(rule, t, q + d)

\* The four substitutions with the single backquote before the triple one.
fix_code_before_block(text) ==
    CHOOSE block \in
        { ReSub("block", code, 1) : code \in
            { ReSub("code", italic, 1) : italic \in
                { ReSub("italic", bold, 1) : bold \in { ReSub("bold", text, 1) } } } } : TRUE

\* The four substitutions in the order of the code, text being assigned
\* the value of each before the next one reads it.
fix_telegram_formatting(text) ==
    CHOOSE code \in
        { ReSub("code", block, 1) : block \in
            { ReSub("block", italic, 1) : italic \in
                { ReSub("italic", bold, 1) : bold \in { ReSub("bold", text, 1) } } } } : TRUE

\* ------------------------------------------------------------------------
\* send_telegram_message: the slices of a long text and their payloads.
\* ------------------------------------------------------------------------

\* f"(продолжение {i+1}/{len(parts)})\n\n" for the 1-based slice number n of total.
Marker(n, total) ==
    marker_head \o Digits(n) \o <<Slash>> \o Digits(total) \o marker_tail

\* len(parts) for parts = [text[i:i+max_length] for i in range(0, len(text), max_length)]
NumParts(text) == (Len(text) + max_message_length - 1) \div max_message_length

\* parts[k] for parts = [text[i-1:i+max_length] ...] from the second part
\* on: each part begins with the last code point of the part before.
PartOverlaps(text, k) ==
    SubSeq(text, IF k = 0 THEN 1 ELSE k * max_message_length,
           IF (k + 1) * max_message_length < Len(text)
           THEN (k + 1) * max_message_length ELSE Len(text))

\* parts[k], k counted from 0 as enumerate does.
Part(text, k) ==
    SubSeq(text, k * max_message_length + 1,
           IF (k + 1) * max_message_length < Len(text)
           THEN (k + 1) * max_message_length ELSE Len(text))

\* The payload of a part with no continuation marker on any part.
PartPayloadBare(text, k) == Part(text, k)

\* The text of the payload of the k-th call of a chunked send.
PartPayload(text, k) ==
    IF k > 0 THEN Marker(k + 1, NumParts(text)) \o Part(text, k) ELSE Part(text, k)

\* ------------------------------------------------------------------------
\* The inputs: updates, messages and the outcomes of the outbound calls.
\* ------------------------------------------------------------------------

\* The outcome of one HTTP call as the code can tell it apart.
Outcomes == {"ok", "notok", "exc"}

\* The chats messages come from.
Chats == {1, 2}

\* A message dict: which keys it carries, and their values.
Message(has_chat, has_from, has_text, chat, text) ==
    [present |-> TRUE, has_chat |-> has_chat, has_from |-> has_from,
     has_text |-> has_text, chat |-> chat, text |-> text]

\* An update dict without the key 'message'.
NoMessage ==
    [present |-> FALSE, has_chat |-> FALSE, has_from |-> FALSE,
     has_text |-> FALSE, chat |-> 0, text |-> <<>>]

\* " /start ", "/help", "/p", " q?", "  ": texts users send.
text_start == <<Space>> \o cmd_start \o <<Space>>

text_unknown_command == <<Slash, 112>>

text_question == <<Space, 113, 63>>

text_blank == <<Space, Space>>

\* The messages of the model: well formed ones with each kind of text, one
\* without text, and malformed ones that lack 'chat' or 'from'.
MessageShapes ==
    { NoMessage,
      Message(FALSE, TRUE, TRUE, 0, text_question),
      Message(TRUE, FALSE, TRUE, 1, cmd_help),
      Message(TRUE, TRUE, FALSE, 1, <<>>),
      Message(TRUE, TRUE, TRUE, 2, text_blank),
      Message(TRUE, TRUE, TRUE, 1, text_start),
      Message(TRUE, TRUE, TRUE, 2, cmd_help),
      Message(TRUE, TRUE, TRUE, 1, text_unknown_command),
      Message(TRUE, TRUE, TRUE, 2, text_question),
      Message(TRUE, TRUE, TRUE, 1, start_command_processed) }

\* The batches data['result'] can hold when the cursor is offset: up to
\* MaxBatch updates with consecutive update_id values not below offset, in
\* increasing order, as the Bot API returns them.
Batches(offset) ==
    UNION { { [k \in 1..n |-> [update_id |-> first + k - 1, message |-> m[k]]] :
                m \in [1..n -> MessageShapes] } :
            <<n, first>> \in { <<n, first>> \in (1..MaxBatch) \X (0..MaxUpdateId) :
                                 first >= offset /\ first + n - 1 <= MaxUpdateId } }

\* What requests.get(...).json() of getUpdates can be: the call or the parse
\* raised, or a dict with 'ok' and 'result'.
PollResponses(offset) ==
    { [raised |-> TRUE, ok |-> FALSE, result |-> <<>>] }
    \cup { [raised |-> FALSE, ok |-> FALSE, result |-> <<>>] }
    \cup { [raised |-> FALSE, ok |-> TRUE, result |-> <<>>] }
    \cup { [raised |-> FALSE, ok |-> TRUE, result |-> b] : b \in Batches(offset) }

\* A text of n code points: the letters a to z, over and over.
LongText(n) == SubSeq([k \in 1..n |-> 97 + (k % 26)], 1, n)

\* The texts the completion service answers with: with markup, and longer
\* than one Telegram message.
answer_markup == <<Asterisk, Asterisk, 97, Asterisk, Asterisk, Space, Asterisk, 53, Asterisk>>

answer_long == LongText(max_message_length + 1)

\* What the SDK call .run(messages) can do: raise; return None or an empty
\* result; return alternatives whose first has no str text (text = None);
\* return alternatives whose first has one of the given texts.
CompletionResults(texts) ==
    { [kind |-> "raise", text |-> <<>>],
      [kind |-> "empty", text |-> <<>>],
      [kind |-> "text_none", text |-> <<>>] }
    \cup { [kind |-> "text", text |-> t] : t \in texts }

\* How a completion call ended, as the log of calls keeps it: the kind of
\* the result, a first alternative with the text "" apart from the others.
CompletionOutcome(result) ==
    IF result.kind = "text" /\ result.text = <<>> THEN "text_empty" ELSE result.kind

\* The answers that fit one Telegram message, and all answers.
FittingAnswers == {<<>>, answer_markup}

AllAnswers == FittingAnswers \cup {answer_long}

\* ------------------------------------------------------------------------
\* Answers carrying markup, for the formatter
\* ------------------------------------------------------------------------

\* The greatest number of pattern instances written one behind the other.
MaxItems == 2

RuleNames == {Rules[k] : k \in 1..Len(Rules)}

\* The delimiter of a rule as the patterns of fix_telegram_formatting
\* write it: **, *, ```, `.
Delim(rule) ==
    CASE rule = "bold" -> <<Asterisk, Asterisk>>
      [] rule = "italic" -> <<Asterisk>>
      [] rule = "block" -> <<Backquote, Backquote, Backquote>>
      [] rule = "code" -> <<Backquote>>

\* The text x between the delimiters of a rule.
Wrap(rule, x) == Delim(rule) \o x \o Delim(rule)

Has(x, c) == \E k \in 1..Len(x) : x[k] = c

\* The texts the group of a rule's pattern can match: (.*?) is any text of
\* one line, ([^*]+?) a non-empty text without asterisk, (.*?) under
\* re.DOTALL any text, ([^`]+?) a non-empty text without backquote.
Admits(rule, x) ==
    CASE rule = "bold" -> ~Has(x, Newline)
      [] rule = "italic" -> x # <<>> /\ ~Has(x, Asterisk)
      [] rule = "block" -> TRUE
      [] rule = "code" -> x # <<>> /\ ~Has(x, Backquote)

\* Texts without markup: a, a<newline>b and the empty text.
PlainTexts == {<<97>>, <<97, Newline, 98>>, <<>>}

\* One instance of a pattern around each text of xs its group can match.
Instances(xs) ==
    {Wrap(rx[1], rx[2]) : rx \in {ry \in RuleNames \X xs : Admits(ry[1], ry[2])}}

\* The instances of the four patterns, plain or one inside the other.
PatternItems == Instances(PlainTexts) \cup Instances(Instances(PlainTexts))

\* Up to n instances one behind the other.
RECURSIVE PatternTexts(_)
PatternTexts(n) ==
    IF n = 0 THEN {<<>>}
    ELSE PatternTexts(n - 1) \cup
         {t \o item : t \in PatternTexts(n - 1), item \in PatternItems}

\* The texts around one instance or one marker.
Contexts == {<<>>, <<97, Space>>, <<Space, 98>>}

\* One instance of a pattern around a plain text, inside plain text.
SimpleTexts ==
    {pre \o inst \o post :
        pre \in Contexts, post \in Contexts, inst \in Instances(PlainTexts \ {<<>>})}

\* One marker without its partner, inside plain text.
UnmatchedTexts ==
    {pre \o Delim(rule) \o post :
        pre \in Contexts, post \in Contexts, rule \in RuleNames}

\* Texts without asterisk and backquote, among them text that is already
\* HTML.
NoMarkupTexts ==
    {<<97>>, <<97, Newline, 98>>, tag_b_open \o <<97>> \o tag_b_close, cmd_help}

\* Up to MaxItems instances one behind the other.
PatternAnswers == PatternTexts(MaxItems)

\* "**\u041a\u0443\u0440\u0441 X**: *5* \u043a\u0440\u0435\u0434\u0438\u0442\u043e\u0432": bold and italic inside a sentence.
answer_sentence ==
    <<42, 42, 1050, 1091, 1088, 1089, 32, 88, 42, 42, 58, 32, 42, 53, 42,
    32, 1082, 1088, 1077, 1076, 1080, 1090, 1086, 1074>>

\* "*a**b**c*": bold inside italic.
answer_bold_in_italic ==
    <<42, 97, 42, 42, 98, 42, 42, 99, 42>>

\* The answers the completion service gives in the formatter's specification.
FormatAnswers ==
    PatternAnswers \cup SimpleTexts \cup UnmatchedTexts \cup NoMarkupTexts
        \cup {answer_markup, answer_sentence, answer_bold_in_italic}

\* ------------------------------------------------------------------------
\* The configuration: the three credentials.
\* ------------------------------------------------------------------------

Credentials == {"token", "folder_id", "auth_token"}

\* The placeholders bot_config.py falls back to when neither secrets.py nor
\* the environment supplies a credential.
Placeholder(c) ==
    CASE c = "token" -> "YOUR_TELEGRAM_BOT_TOKEN"
      [] c = "folder_id" -> "YOUR_YANDEX_FOLDER_ID"
      [] OTHER -> "YOUR_YANDEX_AUTH_TOKEN"

\* The literals validate_config compares the credentials with.
Rejected(c) ==
    CASE c = "token" -> "YOUR_TELEGRAM_TOKEN"
      [] c = "folder_id" -> "YOUR_FOLDER_ID"
      [] OTHER -> "YOUR_AUTH_TOKEN"

\* A value secrets.py or the environment supplies.
Supplied(c) ==
    CASE c = "token" -> "110201543:AAHdqTcvCH1vGWJxfSeofSAs0K5PALDsaw"
      [] c = "folder_id" -> "b1g0000000000000000"
      [] OTHER -> "t1.9euelZ"

\* What os.getenv(NAME, default) can give for a credential: the empty
\* string of a variable set to nothing, the placeholder when nothing is
\* supplied, and values that are supplied.
ConfigValues(c) == {"", Placeholder(c), Rejected(c), Supplied(c)}

Configs ==
    { cfg \in [Credentials -> UNION {ConfigValues(c) : c \in Credentials}] :
        \A c \in Credentials : cfg[c] \in ConfigValues(c) }

SuppliedConfig == [c \in Credentials |-> Supplied(c)]

\* validate_config: the message appended to issues for a credential.
Issue(c) ==
    CASE c = "token" -> "Telegram bot token not configured"
      [] c = "folder_id" -> "YandexGPT folder_id not configured"
      [] OTHER -> "YandexGPT auth_token not configured"

\* validate_config: issues, the three tests in the order of the code.
validate_config(cfg) ==
    LET Test(c) == IF cfg[c] = "" \/ cfg[c] = Rejected(c) THEN <<Issue(c)>> ELSE <<>>
    IN  Test("token") \o Test("folder_id") \o Test("auth_token")

\* ------------------------------------------------------------------------
\* The state.
\* ------------------------------------------------------------------------

VARIABLES
    pc,                   \* the position of the single flow of control
    update_offset,        \* self.update_offset
    updates,              \* run: the batch being iterated
    idx,                  \* run: the position of the for loop in updates
    chat_id,              \* run / handle_question / send_telegram_message: chat_id
    question,             \* handle_question: question
    i,                    \* show_thinking_animation: the loop index
    message_id,           \* show_thinking_animation: message_id
    thinking_message_id,  \* handle_question: thinking_message_id
    response,             \* handle_question: response
    response_text,        \* get_yandex_response: result[0].text as the SDK
                          \* returned it, the empty text when there is none
    text,                 \* send_telegram_message: text
    part,                 \* send_telegram_message: the loop index over parts
    sent,                 \* send_telegram_message: its last return value
    caller,               \* which function called send_telegram_message
    env_faults,           \* the failing calls the environment still injects
                          \* while the current update is handled
    calls,                \* the outbound calls made by the last poll or
                          \* for the update the loop has taken up
    config,               \* TELEGRAM_CONFIG['token'], YANDEX_CONFIG['folder_id']
                          \* and YANDEX_CONFIG['auth_token']
    issues                \* validate_config: issues

vars == <<pc, update_offset, updates, idx, chat_id, question, i, message_id,
          thinking_message_id, response, text, part, sent, caller,
          env_faults, calls, config, issues, response_text>>

\* The operations of the gateway the loop calls.
TransportOps ==
    {"getUpdates", "sendMessage", "editMessageText", "deleteMessage", "sendChatAction"}

\* The timeout= argument of the requests call of an operation, in seconds,
\* None where the call passes none: requests then waits for the endpoint
\* without limit.
Timeout(op) ==
    CASE op = "getUpdates" -> telegram_timeout + 5
      [] op = "sendMessage" -> 10
      [] op = "editMessageText" -> 10
      [] op = "deleteMessage" -> 5
      [] op = "sendChatAction" -> None

\* One outbound call: the operation, the update it was made for (0: none),
\* the chat, the message id it names or returns, its text and its outcome.
Call(op, chat, mid, txt, out) ==
    [op |-> op, upd |-> idx, chat |-> chat, mid |-> mid, text |-> txt, out |-> out]

\* The environment lets a call end with outcome out: a failure uses up one
\* of the failures it injects.
Inject(failed) ==
    /\ ~failed \/ env_faults > 0
    /\ env_faults' = IF failed THEN env_faults - 1 ELSE env_faults

\* The locals of the handling of one update, as they are before it starts
\* and after it has returned, and the failures the environment injects into
\* the next one.
NoLocals ==
    /\ chat_id' = 0
    /\ question' = <<>>
    /\ i' = 0
    /\ message_id' = None
    /\ thinking_message_id' = None
    /\ response' = <<>>
    /\ response_text' = <<>>
    /\ text' = <<>>
    /\ part' = 0
    /\ sent' = FALSE
    /\ caller' = "none"
    /\ env_faults' = MaxFaults

Init ==
    /\ pc = "poll"
    /\ update_offset = 0
    /\ updates = <<>>
    /\ idx = 0
    /\ chat_id = 0
    /\ question = <<>>
    /\ i = 0
    /\ message_id = None
    /\ thinking_message_id = None
    /\ response = <<>>
    /\ response_text = <<>>
    /\ text = <<>>
    /\ part = 0
    /\ sent = FALSE
    /\ caller = "none"
    /\ env_faults = MaxFaults
    /\ calls = <<>>
    /\ config = SuppliedConfig
    /\ issues = <<>>

\* ------------------------------------------------------------------------
\* get_telegram_updates
\* ------------------------------------------------------------------------

\* get_telegram_updates with the cursor set from the first update of the
\* result instead of the last.
GetTelegramUpdatesFirst(offset, resp) ==
    IF ~resp.raised /\ resp.ok /\ resp.result # <<>>
    THEN [update_offset |-> resp.result[1].update_id + 1,
          updates |-> resp.result]
    ELSE [update_offset |-> offset, updates |-> <<>>]

\* get_telegram_updates with the cursor set to the last update_id itself.
GetTelegramUpdatesLastId(offset, resp) ==
    IF ~resp.raised /\ resp.ok /\ resp.result # <<>>
    THEN [update_offset |-> resp.result[Len(resp.result)].update_id,
          updates |-> resp.result]
    ELSE [update_offset |-> offset, updates |-> <<>>]

\* get_telegram_updates with the cursor set back to 0 when the poll fails.
GetTelegramUpdatesReset(offset, resp) ==
    IF ~resp.raised /\ resp.ok /\ resp.result # <<>>
    THEN [update_offset |-> resp.result[Len(resp.result)].update_id + 1,
          updates |-> resp.result]
    ELSE [update_offset |-> 0, updates |-> <<>>]

\* The cursor and the returned list for a response of getUpdates.
GetTelegramUpdates(offset, resp) ==
    IF ~resp.raised /\ resp.ok /\ resp.result # <<>>
    THEN [update_offset |-> resp.result[Len(resp.result)].update_id + 1,
          updates |-> resp.result]
    ELSE [update_offset |-> offset, updates |-> <<>>]

\* run: updates = self.get_telegram_updates(), and the for loop starts.
Poll ==
    /\ pc = "poll"
    /\ \E resp \in PollResponses(update_offset) :
         LET got == GetTelegramUpdates(update_offset, resp)
         IN  /\ update_offset' = got.update_offset
             /\ updates' = got.updates
             /\ calls' = << [op |-> "getUpdates", upd |-> 0, chat |-> 0,
                             mid |-> update_offset, text |-> <<>>,
                             out |-> IF resp.raised THEN "exc"
                                     ELSE IF resp.ok THEN "ok" ELSE "notok"] >>
    /\ idx' = 1
    /\ pc' = "for"
    /\ NoLocals
    /\ UNCHANGED <<config, issues>>

\* ------------------------------------------------------------------------
\* process_message and the dispatch of run
\* ------------------------------------------------------------------------

\* process_message without the strip() of the text.
ProcessMessageNoStrip(message) ==
    LET t == IF message.has_text THEN message.text ELSE <<>>
        none == [sends |-> FALSE, template |-> <<>>, value |-> <<>>]
    IN  IF ~message.has_chat \/ ~message.has_from THEN none
        ELSE IF t = <<>> THEN none
        ELSE IF StartsWith(t, cmd_start)
             THEN [sends |-> TRUE, template |-> welcome, value |-> start_command_processed]
        ELSE IF StartsWith(t, cmd_help)
             THEN [sends |-> TRUE, template |-> help, value |-> help_command_processed]
        ELSE [sends |-> FALSE, template |-> <<>>, value |-> t]

\* process_message returning the text of a command instead of its marker.
ProcessMessageReturnsText(message) ==
    LET t == Strip(IF message.has_text THEN message.text ELSE <<>>)
        none == [sends |-> FALSE, template |-> <<>>, value |-> <<>>]
    IN  IF ~message.has_chat \/ ~message.has_from THEN none
        ELSE IF t = <<>> THEN none
        ELSE IF StartsWith(t, cmd_start)
             THEN [sends |-> TRUE, template |-> welcome, value |-> t]
        ELSE IF StartsWith(t, cmd_help)
             THEN [sends |-> TRUE, template |-> help, value |-> t]
        ELSE [sends |-> FALSE, template |-> <<>>, value |-> t]

\* What process_message does with a message: the template it sends (sends,
\* template) and what it returns.  It returns None or a non-empty str, and
\* run only tests the truth of that value, so None is kept as the empty text.
ProcessMessage(message) ==
    LET t == Strip(IF message.has_text THEN message.text ELSE <<>>)
        none == [sends |-> FALSE, template |-> <<>>, value |-> <<>>]
    IN  IF ~message.has_chat \/ ~message.has_from THEN none
        ELSE IF t = <<>> THEN none
        ELSE IF StartsWith(t, cmd_start)
             THEN [sends |-> TRUE, template |-> welcome, value |-> start_command_processed]
        ELSE IF StartsWith(t, cmd_help)
             THEN [sends |-> TRUE, template |-> help, value |-> help_command_processed]
        ELSE [sends |-> FALSE, template |-> <<>>, value |-> t]

\* run: question and question not in ['start_command_processed', 'help_command_processed']
IsQuestion(q) ==
    /\ q # <<>>
    /\ q \notin {start_command_processed, help_command_processed}

\* run: the for loop is exhausted; asyncio.sleep(1) follows.
RunEndBatch ==
    /\ pc = "for"
    /\ idx > Len(updates)
    /\ pc' = "sleep"
    /\ calls' = <<>>
    /\ UNCHANGED <<update_offset, updates, idx>>
    /\ NoLocals
    /\ UNCHANGED <<config, issues>>

\* run: an update without 'message' is passed over.
RunNoMessage ==
    /\ pc = "for"
    /\ idx <= Len(updates)
    /\ ~updates[idx].message.present
    /\ idx' = idx + 1
    /\ calls' = <<>>
    /\ UNCHANGED <<pc, update_offset, updates>>
    /\ NoLocals
    /\ UNCHANGED <<config, issues>>

\* run: message['chat']['id'] raises; the except Exception of the while
\* body catches it and the for loop is left.
RunChatRaises ==
    /\ pc = "for"
    /\ idx <= Len(updates)
    /\ updates[idx].message.present
    /\ ~updates[idx].message.has_chat
    /\ pc' = "backoff"
    /\ calls' = <<>>
    /\ UNCHANGED <<update_offset, updates, idx>>
    /\ NoLocals
    /\ UNCHANGED <<config, issues>>

\* The for loop going back to the first update behind the second.
RunNextRevisits ==
    /\ pc = "next"
    /\ pc' = "for"
    /\ idx' = IF idx = 2 THEN 1 ELSE idx + 1
    /\ calls' = <<>>
    /\ UNCHANGED <<update_offset, updates>>
    /\ NoLocals
    /\ UNCHANGED <<config, issues>>

\* run: the body of the for loop is over for the current update and the
\* loop goes on to the next one.
RunNext ==
    /\ pc = "next"
    /\ pc' = "for"
    /\ idx' = idx + 1
    /\ calls' = <<>>
    /\ UNCHANGED <<update_offset, updates>>
    /\ NoLocals
    /\ UNCHANGED <<config, issues>>

\* run: chat_id = message['chat']['id']; question = self.process_message(message),
\* up to the send of a template, or through the test on the returned value
\* when nothing is sent: handle_question is entered or the body is over.
RunProcessMessage ==
    /\ pc = "for"
    /\ idx <= Len(updates)
    /\ updates[idx].message.present
    /\ updates[idx].message.has_chat
    /\ LET m == updates[idx].message
           r == ProcessMessage(m)
       IN  IF r.sends
           THEN /\ pc' = "send"
                /\ caller' = "process_message"
                /\ chat_id' = m.chat
                /\ question' = r.value
                /\ text' = r.template
                /\ calls' = <<>>
                /\ UNCHANGED <<idx, i, message_id, thinking_message_id, response,
                               part, sent, env_faults>>
           ELSE IF IsQuestion(r.value)
           THEN /\ pc' = "typing"
                /\ chat_id' = m.chat
                /\ question' = r.value
                /\ calls' = <<>>
                /\ UNCHANGED <<idx, i, message_id, thinking_message_id, response,
                               text, part, sent, caller, env_faults>>
           ELSE /\ pc' = "next"
                /\ calls' = <<>>
                /\ UNCHANGED <<idx, chat_id, question, i, message_id,
                               thinking_message_id, response, text, part, sent,
                               caller, env_faults>>
    /\ UNCHANGED <<update_offset, updates>>
    /\ UNCHANGED <<config, issues, response_text>>

\* ------------------------------------------------------------------------
\* handle_question
\* ------------------------------------------------------------------------

\* thinking_messages read from its end.
ThinkingMessageBackwards(k) ==
    CASE k = 0 -> thinking_3 [] k = 1 -> thinking_2 [] k = 2 -> thinking_1
      [] OTHER -> thinking_0

\* thinking_messages[k], k counted from 0.
ThinkingMessage(k) ==
    CASE k = 0 -> thinking_0 [] k = 1 -> thinking_1 [] k = 2 -> thinking_2
      [] OTHER -> thinking_3

\* handle_question: requests.post(typing_url, ...), outside any inner try:
\* an exception goes to the except branch of handle_question.
TypingSignal ==
    /\ pc = "typing"
    /\ \E out \in Outcomes :
         /\ Inject(out # "ok")
         /\ calls' = Append(calls, Call("sendChatAction", chat_id, None, <<>>, out))
         /\ pc' = IF out = "exc" THEN "except" ELSE "think"
    /\ UNCHANGED <<update_offset, updates, idx, chat_id, question, i, message_id,
                   thinking_message_id, response, text, part, sent, caller>>
    /\ UNCHANGED <<config, issues, response_text>>

\* handle_question: requests.post(typing_url, ...) to an endpoint that takes
\* the connection and never answers.  A call with a timeout raises when
\* the time is over, which is the outcome exc of the actions above and
\* below; a call without one never returns, and handle_question and run()
\* stay where they are.
TypingNeverAnswered ==
    /\ pc = "typing"
    /\ Timeout("sendChatAction") = None
    /\ Inject(TRUE)
    /\ pc' = "hung"
    /\ UNCHANGED <<update_offset, updates, idx, chat_id, question, i, message_id,
                   thinking_message_id, response, text, part, sent, caller, calls>>
    /\ UNCHANGED <<config, issues, response_text>>

\* One pass of the for loop that does not keep the message id of a send:
\* every pass sends.
ThinkingStepForgetsId(out, new_id) ==
    LET mid == IF out = "ok" THEN new_id ELSE None
        over == out = "exc" \/ i + 1 >= NumThinking
    IN  /\ Inject(out # "ok")
        /\ calls' = Append(calls, Call("sendMessage", chat_id, mid, ThinkingMessage(i), out))
        /\ message_id' = None
        /\ i' = i + 1
        /\ thinking_message_id' = IF over THEN mid ELSE thinking_message_id
        /\ pc' = IF over THEN "complete" ELSE "think"

\* show_thinking_animation: one pass of the for loop.  With message_id None
\* the message is sent (and message_id set when the response is ok), else
\* the message is edited (the response is not read).  An exception leaves
\* the loop.  When the loop ends, message_id is returned into
\* thinking_message_id.
ThinkingStep(out, new_id) ==
    LET sending == message_id = None
        mid == IF sending /\ out = "ok" THEN new_id ELSE message_id
        over == out = "exc" \/ i + 1 >= NumThinking
    IN  /\ Inject(out # "ok")
        /\ calls' = Append(calls,
                      Call(IF sending THEN "sendMessage" ELSE "editMessageText",
                           chat_id, mid, ThinkingMessage(i), out))
        /\ message_id' = mid
        /\ i' = i + 1
        /\ thinking_message_id' = IF over THEN mid ELSE thinking_message_id
        /\ pc' = IF over THEN "complete" ELSE "think"

ShowThinkingAnimation ==
    /\ pc = "think"
    /\ \E out \in Outcomes, new_id \in 1..MaxMsgId : ThinkingStep(out, new_id)
    /\ UNCHANGED <<update_offset, updates, idx, chat_id, question, response, text,
                   part, sent, caller>>
    /\ UNCHANGED <<config, issues, response_text>>

\* get_yandex_response: the text returned for a result of the SDK call.
\* A first alternative whose text is None raises at response_text[:100]
\* and is caught like any other exception.
GetYandexResponse(result) ==
    CASE result.kind = "raise" -> error
      [] result.kind = "empty" -> no_response
      [] result.kind = "text_none" -> error
      [] OTHER -> fix_telegram_formatting(result.text)

\* handle_question: response = await self.get_yandex_response(question),
\* the completion service answering with one of the given texts or failing.
CompleteWith(texts) ==
    /\ pc = "complete"
    /\ \E result \in CompletionResults(texts) :
         /\ Inject(CompletionOutcome(result) # "text")
         /\ response_text' = result.text
         /\ response' = GetYandexResponse(result)
         /\ calls' = Append(calls, Call("completion", chat_id, None, question,
                                        CompletionOutcome(result)))
    /\ pc' = "delete"
    /\ UNCHANGED <<update_offset, updates, idx, chat_id, question, i, message_id,
                   thinking_message_id, text, part, sent, caller>>
    /\ UNCHANGED <<config, issues>>

\* The completion service answers within one message.
Complete == CompleteWith(FittingAnswers)

\* The completion service answers with a text of any length.
CompleteAnyLength == CompleteWith(AllAnswers)

\* handle_question without the delete of the thinking message.
DeleteThinkingLeftOut ==
    /\ pc = "delete"
    /\ thinking_message_id # None
    /\ pc' = "send"
    /\ text' = response
    /\ caller' = "handle_question"
    /\ UNCHANGED <<update_offset, updates, idx, chat_id, question, i, message_id,
                   thinking_message_id, response, part, sent, env_faults, calls>>
    /\ UNCHANGED <<config, issues, response_text>>

\* handle_question: if thinking_message_id: deleteMessage in its own try;
\* then self.send_telegram_message(chat_id, response) is entered.
DeleteThinking ==
    /\ pc = "delete"
    /\ thinking_message_id # None
    /\ \E out \in Outcomes :
         /\ Inject(out # "ok")
         /\ calls' = Append(calls, Call("deleteMessage", chat_id, thinking_message_id, <<>>, out))
    /\ pc' = "send"
    /\ text' = response
    /\ caller' = "handle_question"
    /\ UNCHANGED <<update_offset, updates, idx, chat_id, question, i, message_id,
                   thinking_message_id, response, part, sent>>
    /\ UNCHANGED <<config, issues, response_text>>

\* handle_question without the test of thinking_message_id: the delete is
\* called with None.
DeleteWithoutThinking ==
    /\ pc = "delete"
    /\ thinking_message_id = None
    /\ \E out \in Outcomes :
         /\ Inject(out # "ok")
         /\ calls' = Append(calls, Call("deleteMessage", chat_id, thinking_message_id, <<>>, out))
    /\ pc' = "send"
    /\ text' = response
    /\ caller' = "handle_question"
    /\ UNCHANGED <<update_offset, updates, idx, chat_id, question, i, message_id,
                   thinking_message_id, response, part, sent>>
    /\ UNCHANGED <<config, issues, response_text>>

NoThinkingToDelete ==
    /\ pc = "delete"
    /\ thinking_message_id = None
    /\ pc' = "send"
    /\ text' = response
    /\ caller' = "handle_question"
    /\ UNCHANGED <<update_offset, updates, idx, chat_id, question, i, message_id,
                   thinking_message_id, response, part, sent, env_faults, calls>>
    /\ UNCHANGED <<config, issues, response_text>>

\* handle_question: the except branch: the delete when thinking_message_id
\* is set, then self.send_telegram_message(chat_id, error_message) is entered.
HandleQuestionExcept ==
    /\ pc = "except"
    /\ \E out \in Outcomes :
         IF thinking_message_id # None
         THEN /\ Inject(out # "ok")
              /\ calls' = Append(calls, Call("deleteMessage", chat_id, thinking_message_id,
                                             <<>>, out))
         ELSE UNCHANGED <<calls, env_faults>>
    /\ pc' = "send"
    /\ text' = error_message
    /\ caller' = "handle_question_except"
    /\ UNCHANGED <<update_offset, updates, idx, chat_id, question, i, message_id,
                   thinking_message_id, response, part, sent>>
    /\ UNCHANGED <<config, issues, response_text>>

\* ------------------------------------------------------------------------
\* send_telegram_message
\* ------------------------------------------------------------------------

\* The else branch: one call with the text as it is.
SendWhole ==
    /\ pc = "send"
    /\ Len(text) <= max_message_length
    /\ \E out \in Outcomes :
         /\ Inject(out # "ok")
         /\ calls' = Append(calls, Call("sendMessage", chat_id, None, text, out))
         /\ sent' = (out = "ok")
    /\ pc' = "sent"
    /\ UNCHANGED <<update_offset, updates, idx, chat_id, question, i, message_id,
                   thinking_message_id, response, text, part, caller>>
    /\ UNCHANGED <<config, issues, response_text>>

\* The loop over parts going on after a call that failed.
SendPartGoesOn ==
    /\ pc = "send"
    /\ Len(text) > max_message_length
    /\ \E out \in Outcomes :
         /\ Inject(out # "ok")
         /\ calls' = Append(calls, Call("sendMessage", chat_id, None,
                                        PartPayload(text, part), out))
         /\ sent' = (out = "ok" /\ part + 1 >= NumParts(text))
    /\ pc' = IF part + 1 >= NumParts(text) THEN "sent" ELSE "send"
    /\ part' = part + 1
    /\ UNCHANGED <<update_offset, updates, idx, chat_id, question, i, message_id,
                   thinking_message_id, response, text, caller>>
    /\ UNCHANGED <<config, issues, response_text>>

\* The loop over parts: one call per pass; a call that fails returns False,
\* the end of the loop returns True.
SendPart ==
    /\ pc = "send"
    /\ Len(text) > max_message_length
    /\ \E out \in Outcomes :
         /\ Inject(out # "ok")
         /\ calls' = Append(calls, Call("sendMessage", chat_id, None,
                                        PartPayload(text, part), out))
         /\ IF out # "ok"
            THEN /\ sent' = FALSE
                 /\ pc' = "sent"
            ELSE /\ sent' = (part + 1 >= NumParts(text))
                 /\ pc' = IF part + 1 >= NumParts(text) THEN "sent" ELSE "send"
    /\ part' = part + 1
    /\ UNCHANGED <<update_offset, updates, idx, chat_id, question, i, message_id,
                   thinking_message_id, response, text, caller>>
    /\ UNCHANGED <<config, issues, response_text>>

\* send_telegram_message returning False to handle_question's try block as
\* an exception: the except branch follows a failed send of the answer.
SendReturnsRaises ==
    /\ pc = "sent"
    /\ caller # "none"
    /\ IF caller = "process_message" /\ IsQuestion(question)
       THEN /\ pc' = "typing"
            /\ text' = <<>>
            /\ part' = 0
            /\ sent' = FALSE
            /\ caller' = "none"
       ELSE /\ pc' = IF caller = "handle_question" /\ ~sent THEN "except" ELSE "next"
            /\ UNCHANGED <<text, part, sent, caller>>
    /\ UNCHANGED <<update_offset, updates, idx, chat_id, question, i, message_id,
                   thinking_message_id, response, env_faults, calls>>
    /\ UNCHANGED <<config, issues, response_text>>

\* send_telegram_message has returned to process_message, which returns its
\* value to run, where it goes through the test of a question, or to
\* handle_question, which returns to run: the body of the for loop is over.
SendReturns ==
    /\ pc = "sent"
    /\ caller # "none"
    /\ IF caller = "process_message" /\ IsQuestion(question)
       THEN /\ pc' = "typing"
            /\ text' = <<>>
            /\ part' = 0
            /\ sent' = FALSE
            /\ caller' = "none"
       ELSE /\ pc' = "next"
            /\ UNCHANGED <<text, part, sent, caller>>
    /\ UNCHANGED <<update_offset, updates, idx, chat_id, question, i, message_id,
                   thinking_message_id, response, env_faults, calls>>
    /\ UNCHANGED <<config, issues, response_text>>

\* ------------------------------------------------------------------------
\* run: the pauses and the stop
\* ------------------------------------------------------------------------

\* await asyncio.sleep(1) after a batch.
Sleep ==
    /\ pc = "sleep"
    /\ pc' = "poll"
    /\ UNCHANGED <<update_offset, updates, idx, chat_id, question, i, message_id,
                   thinking_message_id, response, text, part, sent, caller, env_faults,
                   calls>>
    /\ UNCHANGED <<config, issues, response_text>>

\* except Exception: await asyncio.sleep(5).
Backoff ==
    /\ pc = "backoff"
    /\ pc' = "poll"
    /\ UNCHANGED <<update_offset, updates, idx, chat_id, question, i, message_id,
                   thinking_message_id, response, text, part, sent, caller, env_faults,
                   calls>>
    /\ UNCHANGED <<config, issues, response_text>>

\* KeyboardInterrupt: run is left and its locals with it.
KeyboardInterrupt ==
    /\ pc # "stopped"
    /\ pc' = "stopped"
    /\ updates' = <<>>
    /\ idx' = 0
    /\ calls' = <<>>
    /\ NoLocals
    /\ UNCHANGED update_offset
    /\ UNCHANGED <<config, issues>>

\* One step of the loop.  The completion service answers within one
\* message, so that every text the loop sends goes out in one call.
Step ==
    \/ Poll
    \/ RunEndBatch
    \/ RunNoMessage
    \/ RunChatRaises
    \/ RunProcessMessage
    \/ RunNext
    \/ TypingSignal
    \/ TypingNeverAnswered
    \/ ShowThinkingAnimation
    \/ Complete
    \/ DeleteThinking
    \/ NoThinkingToDelete
    \/ HandleQuestionExcept
    \/ SendWhole
    \/ SendReturns
    \/ Sleep
    \/ Backoff

Next == Step \/ KeyboardInterrupt

\* run() from its start.
Spec == Init /\ [][Next]_vars

\* The loop runs on as long as it is not stopped and not waiting in a call
\* that never returns: it is the only flow of control, and every sleep ends.
FairSpec == Spec /\ WF_vars(Step)

\* ------------------------------------------------------------------------
\* One call of handle_question, with answers of any length and any number
\* of failing calls.
\* ------------------------------------------------------------------------

QuestionInit ==
    /\ pc = "typing"
    /\ update_offset = 0
    /\ updates = <<>>
    /\ idx = 0
    /\ chat_id \in Chats
    /\ question \in {text_unknown_command, Strip(text_question)}
    /\ i = 0
    /\ message_id = None
    /\ thinking_message_id = None
    /\ response = <<>>
    /\ response_text = <<>>
    /\ text = <<>>
    /\ part = 0
    /\ sent = FALSE
    /\ caller = "none"
    /\ env_faults = CallsPerQuestion
    /\ calls = <<>>
    /\ config = SuppliedConfig
    /\ issues = <<>>

QuestionNext ==
    \/ TypingSignal
    \/ TypingNeverAnswered
    \/ ShowThinkingAnimation
    \/ CompleteAnyLength
    \/ DeleteThinking
    \/ NoThinkingToDelete
    \/ HandleQuestionExcept
    \/ SendWhole
    \/ SendPart

QuestionSpec == QuestionInit /\ [][QuestionNext]_vars

\* ------------------------------------------------------------------------
\* One call of send_telegram_message, with texts of many lengths and any
\* number of failing calls.
\* ------------------------------------------------------------------------

\* The lengths around the multiples of max_message_length.
SendLengths ==
    {0, 1}
    \cup UNION { {n * max_message_length - 1, n * max_message_length,
                  n * max_message_length + 1} : n \in 1..MaxParts }

SendInit ==
    /\ pc = "send"
    /\ update_offset = 0
    /\ updates = <<>>
    /\ idx = 0
    /\ chat_id \in Chats
    /\ question = <<>>
    /\ i = 0
    /\ message_id = None
    /\ thinking_message_id = None
    /\ response = <<>>
    /\ response_text = <<>>
    /\ text \in {LongText(n) : n \in SendLengths}
    /\ part = 0
    /\ sent = FALSE
    /\ caller = "none"
    /\ env_faults = MaxParts + 1
    /\ calls = <<>>
    /\ config = SuppliedConfig
    /\ issues = <<>>

SendNext == SendWhole \/ SendPart

SendSpec == SendInit /\ [][SendNext]_vars

\* ------------------------------------------------------------------------
\* The construction of the bot, with every configuration.
\* ------------------------------------------------------------------------

\* __init__: validate_config(); with issues ValueError is raised and main()
\* never comes to run(), else the bot is constructed with update_offset 0.
Construct ==
    /\ pc = "construct"
    /\ issues' = validate_config(config)
    /\ pc' = IF validate_config(config) # <<>> THEN "refused" ELSE "poll"
    /\ UNCHANGED <<update_offset, updates, idx, chat_id, question, i, message_id,
                   thinking_message_id, response, text, part, sent, caller, env_faults,
                   calls, config, response_text>>

ConfigInit ==
    /\ pc = "construct"
    /\ update_offset = 0
    /\ updates = <<>>
    /\ idx = 0
    /\ chat_id = 0
    /\ question = <<>>
    /\ i = 0
    /\ message_id = None
    /\ thinking_message_id = None
    /\ response = <<>>
    /\ response_text = <<>>
    /\ text = <<>>
    /\ part = 0
    /\ sent = FALSE
    /\ caller = "none"
    /\ env_faults = MaxFaults
    /\ calls = <<>>
    /\ config \in Configs
    /\ issues = <<>>

ConfigNext == Construct

ConfigSpec == ConfigInit /\ [][ConfigNext]_vars

\* ------------------------------------------------------------------------
\* One question from the completion call on, with answers carrying markup,
\* and the formatter applied once more to what it returned.
\* ------------------------------------------------------------------------

\* The completion service answers with a text carrying markup.
CompleteWithMarkup == CompleteWith(FormatAnswers \ {<<>>})

\* fix_telegram_formatting applied to the text it returned.
Reformat ==
    /\ pc = "sent"
    /\ response' = fix_telegram_formatting(response)
    /\ pc' = "reformatted"
    /\ UNCHANGED <<update_offset, updates, idx, chat_id, question, i, message_id,
                   thinking_message_id, text, part, sent, caller, env_faults,
                   calls, config, issues, response_text>>

FormatInit ==
    /\ pc = "complete"
    /\ update_offset = 0
    /\ updates = <<>>
    /\ idx = 0
    /\ chat_id \in Chats
    /\ question = Strip(text_question)
    /\ i = 0
    /\ message_id = None
    /\ thinking_message_id = None
    /\ response = <<>>
    /\ response_text = <<>>
    /\ text = <<>>
    /\ part = 0
    /\ sent = FALSE
    /\ caller = "none"
    /\ env_faults = 0
    /\ calls = <<>>
    /\ config = SuppliedConfig
    /\ issues = <<>>

FormatNext ==
    \/ CompleteWithMarkup
    \/ NoThinkingToDelete
    \/ SendWhole
    \/ Reformat

FormatSpec == FormatInit /\ [][FormatNext]_vars

\* ------------------------------------------------------------------------
\* The properties.
\* ------------------------------------------------------------------------

\* The loop has taken up an update of the batch.
Handling == idx \in 1..Len(updates)

\* message.get('text', '').strip()
TrimmedText(m) == Strip(IF m.has_text THEN m.text ELSE <<>>)

\* A message with the fields of the data model: a chat and a sender.
WellFormed(m) == m.present /\ m.has_chat /\ m.has_from

\* text.startswith('/start') or text.startswith('/help')
IsCommandText(t) == StartsWith(t, cmd_start) \/ StartsWith(t, cmd_help)

\* The template process_message sends for a command.
TemplateOf(t) == IF StartsWith(t, cmd_start) THEN welcome ELSE help

\* A well formed message that calls for a reply: a command or a question.
CallsForDispatch(m) == WellFormed(m) /\ TrimmedText(m) # <<>>

\* max(update_id) over a batch.
MaxId(batch) ==
    CHOOSE n \in {batch[k].update_id : k \in 1..Len(batch)} :
        \A k \in 1..Len(batch) : batch[k].update_id <= n

\* The positions in the log of the calls of an operation.
CallsOf(op) == {k \in 1..Len(calls) : calls[k].op = op}

Failed(c) == c.out \notin {"ok", "text"}

\* C1: once run() is through with a non-empty batch, by the end of the for
\* loop or by an exception that left it, update_offset is the largest
\* update_id of the batch plus one.
C1_CursorAfterBatch ==
    (pc \in {"sleep", "backoff"} /\ updates # <<>>)
        => update_offset = MaxId(updates) + 1

\* A batch of two updates whose first raised in run: the cursor is behind
\* the second.
C1_Witness ==
    /\ pc = "backoff"
    /\ Len(updates) = 2
    /\ idx = 1
    /\ update_offset = updates[2].update_id + 1

\* C2: when run() goes back to polling, every update of the batch that
\* calls for a reply has been taken up, also behind an update whose
\* handling raised.
C2_NoUpdateDropped ==
    pc \in {"sleep", "backoff"}
        => \A k \in 1..Len(updates) : CallsForDispatch(updates[k].message) => k <= idx

\* C3: while the loop handles a well formed message whose trimmed text
\* begins with /start or /help, the only calls are sends of the template of
\* the command to the chat of the message, at most one of them, and exactly
\* one when the handling is over: no typing signal, no thinking message, no
\* completion.
C3_CommandSendsTemplate ==
    (Handling /\ pc # "for" /\ WellFormed(updates[idx].message)
       /\ IsCommandText(TrimmedText(updates[idx].message)))
        => /\ \A k \in 1..Len(calls) :
                /\ calls[k].op = "sendMessage"
                /\ calls[k].chat = updates[idx].message.chat
                /\ calls[k].text = TemplateOf(TrimmedText(updates[idx].message))
           /\ Len(calls) <= 1
           /\ pc = "next" => Len(calls) = 1

\* The handling of " /start " is over, and the one send of the welcome
\* text failed.
C3_Witness ==
    /\ Handling
    /\ pc = "next"
    /\ updates[idx].message = Message(TRUE, TRUE, TRUE, 1, text_start)
    /\ Len(calls) = 1
    /\ calls[1].text = welcome
    /\ calls[1].out = "notok"

\* C4: when the handling of a well formed message is over whose trimmed
\* text is not empty and begins with neither /start nor /help,
\* handle_question has run on the trimmed text and the completion has been
\* called for it.
C4_EveryOtherTextIsAQuestion ==
    (Handling /\ pc = "next" /\ WellFormed(updates[idx].message)
       /\ TrimmedText(updates[idx].message) # <<>>
       /\ ~IsCommandText(TrimmedText(updates[idx].message)))
        => /\ question = TrimmedText(updates[idx].message)
           /\ \E k \in CallsOf("completion") : calls[k].text = question

\* C5: when handle_question has sent its text on the path through the
\* completion, a completion that raised has led to the 'error' text, an
\* empty result to the 'no_response' text, and a result without usable
\* text to one of the two.
C5_FallbackOnFailure ==
    (pc = "sent" /\ caller = "handle_question")
        => \A k \in CallsOf("completion") :
             /\ calls[k].out = "raise" => text = error
             /\ calls[k].out = "empty" => text = no_response
             /\ calls[k].out \in {"text_none", "text_empty"} => text \in {error, no_response}

\* n / d rounded up.
CeilDiv(n, d) == CHOOSE q \in 0..n : q * d >= n /\ (q - 1) * d < n

\* The i-th slice of max_message_length code points of t, i counted from 1.
Slice(t, j) ==
    [k \in 1..(IF j * max_message_length <= Len(t) THEN max_message_length
               ELSE Len(t) - (j - 1) * max_message_length)
       |-> t[(j - 1) * max_message_length + k]]

\* What send_telegram_message has sent when it has returned: a text within
\* the limit in one call, unchanged; a longer text, when no call failed, in
\* ceil(L / max_message_length) calls, the first with the first slice and
\* call j with the marker of head, j and the number of calls before the
\* j-th slice.
SendsInSlices(head) ==
    pc = "sent"
        => /\ Len(text) <= max_message_length
                => Len(calls) = 1 /\ calls[1].text = text
           /\ (Len(text) > max_message_length /\ sent)
                => /\ Len(calls) = CeilDiv(Len(text), max_message_length)
                   /\ calls[1].text = Slice(text, 1)
                   /\ \A j \in 2..Len(calls) :
                        calls[j].text = head \o Digits(j) \o <<Slash>> \o Digits(Len(calls))
                                          \o marker_tail \o Slice(text, j)
                   /\ \A j \in 1..Len(calls) :
                        calls[j].op = "sendMessage" /\ calls[j].chat = chat_id

C7_FailureAbortsSend ==
    Len(text) > max_message_length
        => /\ \A k \in 1..Len(calls) : Failed(calls[k]) => k = Len(calls)
           /\ pc = "sent"
                => sent = /\ Len(calls) = CeilDiv(Len(text), max_message_length)
                          /\ \A k \in 1..Len(calls) : calls[k].out = "ok"

\* The second of three calls raised: send_telegram_message has returned
\* False after two calls.
C7_Witness ==
    /\ pc = "sent"
    /\ Len(text) = 2 * max_message_length + 1
    /\ Len(calls) = 2
    /\ calls[2].out = "exc"
    /\ ~sent

\* The texts of the thinking message.
ThinkingTexts == {ThinkingMessage(k) : k \in 0..(NumThinking - 1)}

\* The call created a thinking message: a send of one of its texts that
\* returned ok, and with it the message id.
CreatesIndicator(c) ==
    c.op = "sendMessage" /\ c.text \in ThinkingTexts /\ c.out = "ok"

\* The call sends the final text: the answer, a fallback or the apology.
SendsFinalText(c) == c.op = "sendMessage" /\ c.text \notin ThinkingTexts

\* C8: between a call that created a thinking message and any send of the
\* final text there is a delete of that message in that chat, and when
\* handle_question is through with its send, the final text has been sent,
\* whatever became of the delete.
C8_DeleteBeforeFinalText ==
    /\ \A k \in 1..Len(calls), f \in 1..Len(calls) :
         (CreatesIndicator(calls[k]) /\ SendsFinalText(calls[f]))
            => \E d \in CallsOf("deleteMessage") :
                 /\ k < d
                 /\ d < f
                 /\ calls[d].mid = calls[k].mid
                 /\ calls[d].chat = calls[k].chat
    /\ pc = "sent" => \E f \in 1..Len(calls) : SendsFinalText(calls[f])

\* A thinking message was created, its delete raised, and the answer has
\* been sent behind it.
C8_Witness ==
    /\ pc = "sent"
    /\ sent
    /\ \E k \in 1..Len(calls) : CreatesIndicator(calls[k])
    /\ \E d \in CallsOf("deleteMessage") : calls[d].out = "exc"
    /\ text = fix_telegram_formatting(answer_markup)

\* The last call of the log failed.
LastCallFailed == calls # <<>> /\ Failed(calls[Len(calls)])

\* C9: after a call that failed, run() comes to its next poll unless it is
\* stopped from outside; the cursor that poll uses is the one the last
\* successful poll left, for nothing but a poll returning updates changes
\* it; and nothing but the stop from outside ends run().
C9_LoopSurvivesFailures ==
    /\ LastCallFailed ~> (pc = "poll" \/ pc = "stopped")
    /\ [][ /\ update_offset' # update_offset
              => (pc = "poll" /\ calls'[1].out = "ok" /\ updates' # <<>>)
           /\ pc' \notin {"poll", "for", "next", "typing", "think", "complete", "delete",
                          "except", "send", "sent", "sleep", "backoff", "hung"}
              => (pc' = "stopped" /\ KeyboardInterrupt) ]_vars

\* C10: a poll that raised or returned a response that is not ok gives the
\* empty batch and leaves the cursor as it was; with the empty batch the
\* for loop dispatches nothing and run() sleeps, then polls again.
C10_PollFailureIsAnEmptyBatch ==
    [][ /\ (pc = "poll" /\ pc' = "for" /\ Failed(calls'[1]))
           => (updates' = <<>> /\ update_offset' = update_offset)
        /\ (pc = "for" /\ updates = <<>>) => pc' \in {"sleep", "stopped"}
        /\ pc = "sleep" => pc' \in {"poll", "stopped"} ]_vars

\* A poll has raised with the cursor behind an earlier batch.
C10_Witness ==
    /\ pc = "for"
    /\ calls # <<>>
    /\ calls[1].op = "getUpdates"
    /\ calls[1].out = "exc"
    /\ updates = <<>>
    /\ update_offset = 2

\* A credential that has not been supplied: it is empty or still the
\* placeholder the configuration falls back to.
Missing(c) == config[c] = "" \/ config[c] = Placeholder(c)

\* How often a message is in the list of issues.
Count(list, x) == Cardinality({k \in 1..Len(list) : list[k] = x})

\* C11: when the construction of the bot is over and a credential is
\* missing, the construction has failed, and the issues hold one entry for
\* every missing credential and none for a supplied one.
C11_MissingCredentialsRefused ==
    (pc # "construct" /\ \E c \in Credentials : Missing(c))
        => /\ pc = "refused"
           /\ \A c \in Credentials : Count(issues, Issue(c)) = IF Missing(c) THEN 1 ELSE 0

\* C12: every call but the poll is made for the update the for loop is at;
\* between two polls the loop moves on by one update at a time and never
\* back, and only when the handling of the update it leaves is over.  So
\* all calls for an update come before all calls for a later one.
C12_OneUpdateAtATime ==
    [][ /\ \A k \in 1..Len(calls') :
             calls'[k].op # "getUpdates"
                => (calls'[k].upd = idx' /\ idx' \in 1..Len(updates'))
        /\ (pc \notin {"poll", "stopped"} /\ pc' # "stopped")
             => /\ idx' \in {idx, idx + 1}
                /\ idx' = idx + 1
                     => (pc = "next" \/ (pc = "for" /\ ~updates[idx].message.present))
                /\ updates' = updates ]_vars

\* The second question of a batch is being answered: its thinking message
\* is up and the completion has been called.
C12_Witness ==
    /\ idx = 2
    /\ pc = "delete"
    /\ IsQuestion(TrimmedText(updates[1].message))
    /\ WellFormed(updates[1].message)
    /\ Len(calls) > 2
    /\ \A k \in 1..Len(calls) : calls[k].upd = 2

\* ------------------------------------------------------------------------
\* The formatter
\* ------------------------------------------------------------------------

\* The text of the last call of the log: the text delivered to the user.
Delivered == calls[Len(calls)].text

\* C13: for every answer that is written with instances of the four patterns
\* only (one behind the other or one inside the other), applying
\* fix_telegram_formatting to what it returned for the answer returns that
\* text again: nothing is wrapped a second time.
C13_FormatterIdempotent ==
    (pc = "reformatted" /\ response_text \in PatternAnswers)
        => response = fix_telegram_formatting(response_text)

\* An answer with a bold text inside italic markers followed by a code
\* span has been formatted twice.
C13_Witness ==
    /\ pc = "reformatted"
    /\ response_text = Wrap("italic", <<97>>) \o Wrap("block", Wrap("code", <<97>>))
    /\ response_text \in PatternAnswers
    /\ text # response_text

\* "<b>a</b> <i>5</i>"
delivered_markup ==
    <<60, 98, 62, 97, 60, 47, 98, 62, 32, 60, 105, 62, 53, 60, 47, 105, 62>>

\* "<b>\u041a\u0443\u0440\u0441 X</b>: <i>5</i> \u043a\u0440\u0435\u0434\u0438\u0442\u043e\u0432"
delivered_sentence ==
    <<60, 98, 62, 1050, 1091, 1088, 1089, 32, 88, 60, 47, 98, 62, 58, 32,
    60, 105, 62, 53, 60, 47, 105, 62, 32, 1082, 1088, 1077, 1076, 1080,
    1090, 1086, 1074>>

\* "<i>a<b>b</b>c</i>"
delivered_bold_in_italic ==
    <<60, 105, 62, 97, 60, 98, 62, 98, 60, 47, 98, 62, 99, 60, 47, 105, 62>>

\* C14: the text delivered for an answer of the completion service is the
\* formatter's text of the answer: an instance of one pattern inside plain
\* text is delivered with the pattern's tags around X, X spanning lines
\* for every pattern but the bold one; bold is rewritten before italic and
\* the triple backquote before the single one; an answer without asterisk
\* and backquote, and an answer whose only marker has no partner, are
\* delivered unchanged.
C14_DeliveredTextIsFormatted ==
    (pc = "sent" /\ sent) =>
        /\ Delivered = fix_telegram_formatting(response_text)
        /\ \A pre \in Contexts, post \in Contexts, rule \in RuleNames,
              x \in PlainTexts \ {<<>>} :
                (Admits(rule, x) /\ response_text = pre \o Wrap(rule, x) \o post)
                    => Delivered = pre \o OpenTag(rule) \o x \o CloseTag(rule) \o post
        /\ OpenTag("bold") = tag_b_open /\ CloseTag("bold") = tag_b_close
        /\ OpenTag("italic") = tag_i_open /\ CloseTag("italic") = tag_i_close
        /\ OpenTag("block") = tag_code_open /\ CloseTag("block") = tag_code_close
        /\ OpenTag("code") = tag_code_open /\ CloseTag("code") = tag_code_close
        /\ response_text = answer_markup => Delivered = delivered_markup
        /\ response_text = answer_sentence => Delivered = delivered_sentence
        /\ response_text = answer_bold_in_italic => Delivered = delivered_bold_in_italic
        /\ (~Has(response_text, Asterisk) /\ ~Has(response_text, Backquote))
              => Delivered = response_text
        /\ \A pre \in Contexts, post \in Contexts, rule \in RuleNames :
              response_text = pre \o Delim(rule) \o post => Delivered = response_text

\* A code block of two lines inside plain text has been delivered.
C14_Witness ==
    /\ pc = "sent"
    /\ sent
    /\ response_text = <<97, Space>> \o Wrap("block", <<97, Newline, 98>>) \o <<Space, 98>>
    /\ Delivered = <<97, Space>> \o tag_code_open \o <<97, Newline, 98>> \o tag_code_close
                      \o <<Space, 98>>

\* ------------------------------------------------------------------------
\* The typing signal and the thinking message
\* ------------------------------------------------------------------------

\* The call sends or edits the thinking message.
DrivesIndicator(c) ==
    c.op \in {"sendMessage", "editMessageText"} /\ c.text \in ThinkingTexts

\* C15: after a typing call that failed, by an exception or by a response
\* that is not ok, handle_question goes on as if it had succeeded: it never
\* enters its except branch, and when it comes to send its final text the
\* thinking message has been driven, the completion service has been
\* called, and the text is the one get_yandex_response returned, not the
\* apology of the except branch.
C15_TypingFailureIgnored ==
    \A k \in CallsOf("sendChatAction") :
        Failed(calls[k]) =>
            /\ pc # "except"
            /\ caller # "handle_question_except"
            /\ pc \in {"send", "sent"} =>
                 /\ \E t \in 1..Len(calls) : DrivesIndicator(calls[t])
                 /\ CallsOf("completion") # {}
                 /\ text = response

\* C16: in the thinking sequence no send and no edit follows a send or an
\* edit that failed, by an exception or by a response that is not ok; and
\* once the sequence is over the completion service is called, whatever
\* failed.
C16_FirstFailureStopsIndicator ==
    /\ \A k \in 1..Len(calls), l \in 1..Len(calls) :
         (k < l /\ DrivesIndicator(calls[k]) /\ DrivesIndicator(calls[l]))
            => ~Failed(calls[k])
    /\ (pc \in {"delete", "send", "sent"} /\ caller # "handle_question_except")
         => CallsOf("completion") # {}

\* ------------------------------------------------------------------------
\* The order of the phases of handle_question
\* ------------------------------------------------------------------------

\* No call of the log failed.
NoCallFailed == \A k \in 1..Len(calls) : ~Failed(calls[k])

\* The four thinking texts in the order of the list.
thinking_messages == <<thinking_0, thinking_1, thinking_2, thinking_3>>

\* C17: while no call fails, the calls of handle_question are, in this
\* order: the typing signal, the send of the first thinking text, the edits
\* of that message with the second, third and fourth text, the completion
\* call with the question, the delete of the thinking message, and the
\* sends of the answer; handle_question is through only after all of
\* them.  Whatever fails, no send or edit of the thinking message comes
\* after the completion call, and no send of the final text comes before
\* the completion call unless it is the apology of the except branch.
C17_PhasesInOrder ==
    /\ NoCallFailed =>
         /\ \A k \in 1..Len(calls) :
              CASE k = 1 -> calls[k].op = "sendChatAction"
                [] k = 2 -> /\ calls[k].op = "sendMessage"
                            /\ calls[k].text = thinking_messages[1]
                [] k \in 3..5 -> /\ calls[k].op = "editMessageText"
                                 /\ calls[k].text = thinking_messages[k - 1]
                                 /\ calls[k].mid = calls[2].mid
                [] k = 6 -> calls[k].op = "completion" /\ calls[k].text = question
                [] k = 7 -> calls[k].op = "deleteMessage" /\ calls[k].mid = calls[2].mid
                [] OTHER -> SendsFinalText(calls[k])
         /\ pc = "sent" => Len(calls) >= 8
    /\ \A c \in CallsOf("completion"), k \in 1..Len(calls) :
         /\ DrivesIndicator(calls[k]) => k < c
         /\ SendsFinalText(calls[k]) => c < k
    /\ \A k \in 1..Len(calls) :
         (SendsFinalText(calls[k]) /\ CallsOf("completion") = {})
            => caller = "handle_question_except"

\* A question went through without a failure and its answer, too long for
\* one message, has been sent in parts.
C17_Witness ==
    /\ pc = "sent"
    /\ sent
    /\ NoCallFailed
    /\ Len(calls) > 8
    /\ calls[6].op = "completion"
    /\ calls[7].op = "deleteMessage"

\* ------------------------------------------------------------------------
\* The cursor
\* ------------------------------------------------------------------------

\* C18: update_offset is 0 when run() starts and no step makes it smaller.
\* Every poll asks for the updates from update_offset on, and the cursor it
\* leaves is above every update_id of the batch it returned; the batch
\* holds no update_id twice and the for loop goes through it forward only:
\* an update_id that has been dispatched is below every later cursor and is
\* never dispatched again.
C18_CursorNeverGoesBack ==
    /\ update_offset = 0
    /\ [][ /\ update_offset' >= update_offset
           /\ (pc = "poll" /\ pc' = "for") =>
                /\ calls'[1].op = "getUpdates"
                /\ calls'[1].mid = update_offset
                /\ \A k \in 1..Len(updates') :
                     /\ updates'[k].update_id >= update_offset
                     /\ updates'[k].update_id < update_offset'
                     /\ \A l \in 1..Len(updates') :
                          k # l => updates'[k].update_id # updates'[l].update_id
           /\ (pc \notin {"poll", "stopped"} /\ pc' # "stopped")
                => (updates' = updates /\ idx' >= idx) ]_vars

\* A second poll, asked from a cursor above 0, has returned a batch and
\* moved the cursor to its end.
C18_Witness ==
    /\ pc = "for"
    /\ calls # <<>>
    /\ calls[1].op = "getUpdates"
    /\ calls[1].mid > 0
    /\ updates # <<>>
    /\ update_offset > calls[1].mid

\* ------------------------------------------------------------------------
\* Updates without a text
\* ------------------------------------------------------------------------

\* An update without 'message', or a message of a chat whose text is
\* absent or empty after strip().
Textless(m) == ~m.present \/ (m.has_chat /\ TrimmedText(m) = <<>>)

\* C19: while the loop is at an update without message or without text,
\* no call is made for it (the log holds at most the poll that returned
\* the batch), run() is neither in handle_question nor in a send nor in its
\* except branch, the cursor is already above the update's id, and the
\* next step of the loop, unless it is stopped from outside, goes on
\* towards the next update with the cursor unchanged.
C19_TextlessUpdateSkipped ==
    /\ [](  (Handling /\ Textless(updates[idx].message))
              => /\ pc \in {"for", "next"}
                 /\ \A k \in 1..Len(calls) : calls[k].op = "getUpdates"
                 /\ update_offset > updates[idx].update_id )
    /\ [][ (Handling /\ Textless(updates[idx].message) /\ pc' # "stopped")
              => /\ calls' = <<>>
                 /\ update_offset' = update_offset
                 /\ updates' = updates
                 /\ \/ pc' = "next" /\ pc = "for" /\ idx' = idx
                    \/ pc' = "for" /\ idx' = idx + 1 ]_vars

\* The loop is through with a message of blanks, the second update of its
\* batch.
C19_Witness ==
    /\ Handling
    /\ idx = 2
    /\ pc = "next"
    /\ updates[idx].message.present
    /\ updates[idx].message.text = text_blank
    /\ calls = <<>>

\* ------------------------------------------------------------------------
\* Timeouts
\* ------------------------------------------------------------------------

\* C20: every call of the gateway carries a timeout, so that run() is never
\* left waiting without end in a call whose endpoint does not answer.
C20_NoCallWaitsForever == pc # "hung"

\* ------------------------------------------------------------------------
\* One question: one final text, one thinking message, one delete
\* ------------------------------------------------------------------------

\* The positions in the log of the sends of a final text.
FinalCalls == {k \in 1..Len(calls) : SendsFinalText(calls[k])}

\* send_telegram_message was entered by handle_question.
SendOfQuestion == caller \in {"handle_question", "handle_question_except"}

\* C21: handle_question sends no final text before it enters
\* send_telegram_message, and once that has returned, and after
\* handle_question itself has returned, the log holds exactly one send of a
\* final text, the last call of the log: of the text get_yandex_response
\* returned when the completion was called, of the apology of the except
\* branch when it was not.  Whether that send succeeded makes no
\* difference.
C21_OneFinalSend ==
    /\ pc \in {"typing", "think", "complete", "delete", "except", "hung"}
         => FinalCalls = {}
    /\ (pc = "send" /\ SendOfQuestion) => FinalCalls = {}
    /\ (pc \in {"sent", "next"} /\ SendOfQuestion)
         => /\ FinalCalls = {Len(calls)}
            /\ calls[Len(calls)].text = text
            /\ calls[Len(calls)].chat = chat_id
            /\ text = IF caller = "handle_question_except" THEN error_message ELSE response
            /\ (caller = "handle_question_except") <=> (CallsOf("completion") = {})

\* handle_question has returned after the one send of its answer raised.
C21_Witness ==
    /\ pc = "next"
    /\ caller = "handle_question"
    /\ ~sent
    /\ CallsOf("completion") # {}
    /\ FinalCalls = {Len(calls)}
    /\ calls[Len(calls)].out = "exc"
    /\ text = fix_telegram_formatting(answer_markup)

\* The positions in the log of the sends that created a thinking message.
Created == {k \in 1..Len(calls) : CreatesIndicator(calls[k])}

\* C22: at most one send of a thinking text returns ok; no edit comes
\* before it, every send or edit of a thinking text behind it is an edit of
\* the message it created, in the chat of the question, and every delete
\* lies behind it and names that message and that chat.
C22_OneThinkingMessage ==
    /\ Cardinality(Created) <= 1
    /\ \A k \in CallsOf("editMessageText") : \E c \in Created : c < k
    /\ \A c \in Created :
         /\ calls[c].mid # None
         /\ \A k \in 1..Len(calls) :
              (k > c /\ DrivesIndicator(calls[k]))
                 => /\ calls[k].op = "editMessageText"
                    /\ calls[k].mid = calls[c].mid
                    /\ calls[k].chat = calls[c].chat
         /\ \A d \in CallsOf("deleteMessage") :
              /\ c < d
              /\ calls[d].mid = calls[c].mid
              /\ calls[d].chat = calls[c].chat
         /\ pc \in {"complete", "delete"} => thinking_message_id = calls[c].mid

\* The first send of a thinking text was refused, the second created the
\* message, an edit followed, and the message has been deleted.
C22_Witness ==
    /\ pc = "send"
    /\ Len(calls) >= 6
    /\ calls[2].op = "sendMessage" /\ calls[2].out = "notok"
    /\ Created = {3}
    /\ calls[4].op = "editMessageText"
    /\ CallsOf("deleteMessage") # {}

\* C23: the log of a question holds at most one delete; a delete lies
\* behind the send that created the thinking message and names it; and a
\* question whose thinking message was never created, the one whose typing
\* call raised among them, comes to its send without a delete.
C23_AtMostOneDelete ==
    /\ Cardinality(CallsOf("deleteMessage")) <= 1
    /\ \A d \in CallsOf("deleteMessage") :
         \E c \in Created : c < d /\ calls[d].mid = calls[c].mid
    /\ Created = {} => CallsOf("deleteMessage") = {}
    /\ pc = "except" => thinking_message_id = None
    /\ (pc \in {"send", "sent"} /\ Created # {})
         => Cardinality(CallsOf("deleteMessage")) = 1

\* The thinking message was created by the first send, an edit raised, the
\* one delete was refused, and the answer has been sent.
C23_Witness ==
    /\ pc = "sent"
    /\ sent
    /\ caller = "handle_question"
    /\ Created = {2}
    /\ \E k \in CallsOf("editMessageText") : calls[k].out = "exc"
    /\ Cardinality(CallsOf("deleteMessage")) = 1
    /\ \A d \in CallsOf("deleteMessage") : calls[d].out = "notok"

\* ------------------------------------------------------------------------
\* The chunked send puts the text back together
\* ------------------------------------------------------------------------

\* The payload of call j of the log without the continuation marker of
\* call j of Len(calls); call 1 carries none.
Unmarked(j) ==
    IF j = 1 THEN calls[1].text
    ELSE SubSeq(calls[j].text, Len(Marker(j, Len(calls))) + 1, Len(calls[j].text))

\* The unmarked payloads of calls 1..j, one behind the other.
RECURSIVE Joined(_)
Joined(j) == IF j = 0 THEN <<>> ELSE Joined(j - 1) \o Unmarked(j)

\* C24: when send_telegram_message has returned True for a text longer
\* than max_message_length, every call from the second on begins with its
\* continuation marker, the payloads without their markers, joined in the
\* order of the calls, are the text, and every payload without its marker
\* has max_message_length code points but the last, which has at least one
\* and at most max_message_length.
C24_ChunksGiveTheText ==
    (pc = "sent" /\ sent /\ Len(text) > max_message_length)
        => /\ \A j \in 2..Len(calls) : StartsWith(calls[j].text, Marker(j, Len(calls)))
           /\ Joined(Len(calls)) = text
           /\ \A j \in 1..Len(calls) :
                /\ Len(Unmarked(j)) >= 1
                /\ Len(Unmarked(j)) <= max_message_length
                /\ j < Len(calls) => Len(Unmarked(j)) = max_message_length

\* A text of exactly two full slices has gone out in two calls.
C24_Witness ==
    /\ pc = "sent"
    /\ sent
    /\ Len(text) = 2 * max_message_length
    /\ Len(calls) = 2
    /\ Len(Unmarked(2)) = max_message_length

====
